---- MODULE Spec2Model ----
(***************************************************************************)
(* Token-bucket rate limiter (services/ratelimiter.go) and its HTTP gate   *)
(* (services/apihandler.go).                                               *)
(*                                                                         *)
(* The clock is counted in whole seconds.  time.Since(t).Seconds() of a    *)
(* whole number of seconds s is float64(s) + 0/1e9 = float64(s), exactly.  *)
(* The refill arithmetic of Allow is IEEE-754 binary64: the quotient       *)
(* float64(maxLimit)/float64(timeLImit) and the product with timePassed    *)
(* are each rounded to 53 significant bits (round to nearest, ties to      *)
(* even), and int(...) truncates toward zero.  Significands are kept as    *)
(* sequences of 13-bit limbs, most significant first.                      *)
(***************************************************************************)
EXTENDS Integers, Sequences, FiniteSets, TLC

----------------------------------------------------------------------------
(* binary64 arithmetic used by Allow, lines 41-43 *)

\* A significand is a sequence <<d0, d1, d2, d3, d4>> of digits, most
\* significant first: d1..d4 are 13-bit limbs and d0 carries what is above
\* them, so that the sequence stands for the integer
\*   d0*2^52 + d1*2^39 + d2*2^26 + d3*2^13 + d4.
\* A float is [sig, exp] with value sig * 2^(exp - 52); it is normalised (a
\* binary64 with its 53-bit significand) when d0 = 1.
LimbBits == 13
Limbs == 4

RECURSIVE Pow2(_)
Pow2(k) == IF k <= 0 THEN 1 ELSE 2 * Pow2(k - 1)

Limb == Pow2(LimbBits)

Front(s) == SubSeq(s, 1, Len(s) - 1)

RECURSIVE BitLen(_)
\* The number of binary digits of a natural number (0 -> 0).
BitLen(n) == IF n = 0 THEN 0 ELSE BitLen(n \div 2) + 1

RECURSIVE AddOne(_)
\* sig + 1, the carry running into d0.
AddOne(d) ==
    IF Len(d) = 1 THEN <<d[1] + 1>>
    ELSE IF d[Len(d)] + 1 < Limb THEN Append(Front(d), d[Len(d)] + 1)
    ELSE Append(AddOne(Front(d)), 0)

\* Round to nearest, ties to even: sig (d0 = 1) is what was kept, guard the
\* first digit dropped, sticky whether any later one is set.
RoundNearestEven(sig, exp, guard, sticky) ==
    LET up  == guard /\ (sticky \/ sig[Len(sig)] % 2 = 1)
        inc == AddOne(sig)
    IN  IF ~up THEN [sig |-> sig, exp |-> exp]
        ELSE IF inc[1] = 2
             THEN [sig |-> <<1>> \o SubSeq(inc, 2, Len(inc)), exp |-> exp + 1]
             ELSE [sig |-> inc, exp |-> exp]

RECURSIVE Exp2(_, _)
\* The exponent e with 2^e <= c/w < 2^(e+1), for c, w >= 1.
Exp2(c, w) ==
    IF c >= 2 * w THEN Exp2(c, 2 * w) + 1
    ELSE IF c < w THEN Exp2(2 * c, w) - 1
    ELSE 0

RECURSIVE QuotLimbs(_, _, _)
\* The next k limbs of r/d (0 <= r < d), by long division.
QuotLimbs(r, d, k) ==
    IF k = 0 THEN <<>>
    ELSE <<(r * Limb) \div d>> \o QuotLimbs((r * Limb) % d, d, k - 1)

RECURSIVE QuotRem(_, _, _)
\* What long division has left after k limbs.
QuotRem(r, d, k) ==
    IF k = 0 THEN r ELSE QuotRem((r * Limb) % d, d, k - 1)

\* float64(c) / float64(w) for integers c, w >= 1 (both exact as float64).
FloatDiv(c, w) ==
    LET e == Exp2(c, w)
        n == c * Pow2(-e)
        d == w * Pow2(e)
        r == QuotRem(n - d, d, Limbs)
    IN  RoundNearestEven(<<1>> \o QuotLimbs(n - d, d, Limbs), e,
                         2 * r >= d, (2 * r) % d # 0)

RECURSIVE MulLimbs(_, _, _)
\* sig * t + carry, for a natural number t < Limb: the exact product.
MulLimbs(d, t, carry) ==
    LET x == d[Len(d)] * t + carry
    IN  IF Len(d) = 1 THEN <<x>>
        ELSE Append(MulLimbs(Front(d), t, x \div Limb), x % Limb)

\* sig shifted right by s <= LimbBits bits, the bits shifted out dropped.
ShiftRight(d, s) ==
    [i \in 1..Len(d) |->
        IF i = 1 THEN d[1] \div Pow2(s)
        ELSE (d[i - 1] % Pow2(s)) * Pow2(LimbBits - s) + d[i] \div Pow2(s)]

\* float64(t) * f for an integer 1 <= t < Limb: the exact product has
\* s = BitLen(d0) - 1 bits too many, which are rounded off.
FloatMulInt(f, t) ==
    LET p    == MulLimbs(f.sig, t, 0)
        s    == BitLen(p[1]) - 1
        low  == p[Len(p)] % Pow2(s)
        half == Pow2(s - 1)
    IN  IF s = 0 THEN [sig |-> p, exp |-> f.exp]
        ELSE RoundNearestEven(ShiftRight(p, s), f.exp + s,
                              low >= half, low % half # 0)

\* int(f) for a normalised f >= 0: truncation toward zero, digit by digit.
TruncToInt(f) ==
    LET Part(i) ==
            LET sh == f.exp - LimbBits * (i - 1)
            IN  IF sh >= 0 THEN f.sig[i] * Pow2(sh)
                ELSE IF -sh <= LimbBits THEN f.sig[i] \div Pow2(-sh)
                ELSE 0
    IN  IF f.exp < 0 THEN 0
        ELSE Part(1) + Part(2) + Part(3) + Part(4) + Part(5)

\* Lines 41-43: refillRate := float64(maxLimit) / float64(timeLImit);
\* tokensToAdd := int(timePassed * refillRate), timePassed whole seconds.
TokensToAdd(maxL, timeL, timePassed) ==
    IF timePassed = 0 THEN 0
    ELSE TruncToInt(FloatMulInt(FloatDiv(maxL, timeL), timePassed))

----------------------------------------------------------------------------
(* The state *)

\* Workers serving requests concurrently (net/http runs each request on its
\* own goroutine), clock ticks and requests explored.
NumProcs == 2
MaxTicks == 2
MaxRequests == 3
RefRequests == 8

Procs == 1..NumProcs

\* GetApiKeys(): the keys the credential store accepts.
ApiKeys == {"apikey123", "apikey124"}

\* NewRateLimiter(maxLimit, timeLimit) as explored, each with the amounts (in
\* seconds) by which the clock advances between two steps and the values of
\* the X-API-KEY header the clients send: "" (what Header.Get returns when
\* the header is absent), a key the store does not know, valid keys.
Scenarios ==
    { [maxLimit |-> 2, timeLImit |-> 3, steps |-> {1, 2},
       sent |-> {""} \cup ApiKeys],
      [maxLimit |-> 1, timeLImit |-> 2, steps |-> {1, 2},
       sent |-> {"", "unknown", "apikey123"}] }

\* main.go's NewRateLimiter(5, 60), a limiter whose refill rate 2/49 is not
\* a binary fraction, and a one-token limiter asked for both keys.
RefScenarios ==
    { [maxLimit |-> 5, timeLImit |-> 60, steps |-> {5, 7, 12},
       sent |-> {"unknown", "apikey123"}],
      [maxLimit |-> 2, timeLImit |-> 49, steps |-> {24, 25},
       sent |-> {"unknown", "apikey123"}],
      [maxLimit |-> 1, timeLImit |-> 2, steps |-> {1, 2}, sent |-> ApiKeys] }

NoEpoch == [kind |-> "none"]

VARIABLES
    maxLimit,    \* RateLimiter.maxLimit
    timeLImit,   \* RateLimiter.timeLImit
    requests,    \* RateLimiter.requests: apiKey -> [lastSeen, tokenCount]
    mutex,       \* RateLimiter.mutex: TRUE when locked
    now,         \* the clock, in seconds
    pc,          \* where each worker is in the middleware / in Allow
    apiKey,      \* the X-API-KEY header of the worker's request
    tokensToAdd, \* Allow's local tokensToAdd
    ret,         \* what Allow returned to the worker ("none" before)
    status,      \* the HTTP status written (0 before)
    served,      \* whether next.ServeHTTP was called for the request
    body,        \* the text written to the response ("" while none is)
    clockSteps,  \* the amounts the clock advances by
    sent,        \* the X-API-KEY values clients send
    ticks,       \* clock advances so far
    budget,      \* requests still to come
    entry,       \* history: the registry as the worker found it on locking
    reads,       \* history: the clock values the worker's Allow call read
    epoch,       \* history: per key, the calls since tokens were last added
    seen         \* history: per key, first sight, calls, admissions, last add

limiter == <<maxLimit, timeLImit, clockSteps, sent>>
locals  == <<pc, apiKey, tokensToAdd, ret, status, served, body>>
history == <<entry, reads, epoch, seen>>
vars    == <<limiter, requests, mutex, now, ticks, budget, locals, history>>

\* isValidApiKey: membership in GetApiKeys().
isValidApiKey(key) == key \in ApiKeys

\* m[k] = v, as Go's map assignment: the key is added when absent.
Put(m, k, v) == [x \in DOMAIN m \cup {k} |-> IF x = k THEN v ELSE m[x]]

Min(a, b) == IF a < b THEN a ELSE b

\* NewRateLimiter: an empty map, an unlocked mutex; no request in flight.
InitWith(scenarios, nreq) ==
    /\ \E s \in scenarios :
          /\ maxLimit = s.maxLimit
          /\ timeLImit = s.timeLImit
          /\ clockSteps = s.steps
          /\ sent = s.sent
    /\ requests = << >>
    /\ mutex = FALSE
    /\ now = 0
    /\ ticks = 0
    /\ budget = nreq
    /\ pc = [p \in Procs |-> "idle"]
    /\ apiKey = [p \in Procs |-> ""]
    /\ tokensToAdd = [p \in Procs |-> 0]
    /\ ret = [p \in Procs |-> "none"]
    /\ status = [p \in Procs |-> 0]
    /\ served = [p \in Procs |-> FALSE]
    /\ body = [p \in Procs |-> ""]
    /\ entry = [p \in Procs |-> << >>]
    /\ reads = [p \in Procs |-> << >>]
    /\ epoch = [k \in ApiKeys |-> NoEpoch]
    /\ seen = << >>

Init == InitWith(Scenarios, MaxRequests)

InitRef == InitWith(RefScenarios, RefRequests)

----------------------------------------------------------------------------
(* History bookkeeping (no effect on the program's state) *)

\* The calls on a key are grouped into epochs: an epoch starts with the call
\* that creates the bucket ("fresh") or with a call that finds the bucket
\* empty ("exhausted", dt the time since lastSeen that call measured), and
\* runs on while calls add no token.  results are the calls' return values in
\* order, at the first clock reading of the epoch and last the latest.
EpochStep(e, created, pre, dt, add, ok, t1, t) ==
    IF e.kind # "none" /\ (created \/ add = 0)
    THEN [e EXCEPT !.results = Append(@, ok), !.last = t]
    ELSE IF created
    THEN [kind |-> "fresh", at |-> t1, last |-> t, dt |-> 0, results |-> <<ok>>]
    ELSE IF pre.tokenCount = 0
    THEN [kind |-> "exhausted", at |-> t1, last |-> t, dt |-> dt,
          results |-> <<ok>>]
    ELSE NoEpoch

\* Per key: when it was first seen, the Allow calls decided and admitted since,
\* and when tokens were last added (or the bucket created).
SeenStep(sn, k, ok, t) ==
    IF k \in DOMAIN sn
    THEN [sn EXCEPT ![k].calls = @ + 1,
                    ![k].admitted = @ + (IF ok THEN 1 ELSE 0)]
    ELSE Put(sn, k, [first |-> t, calls |-> 1,
                     admitted |-> IF ok THEN 1 ELSE 0, lastAdd |-> t])

----------------------------------------------------------------------------
(* RateLimiterMiddleware and Allow, step by step *)

\* A gate that checks only that the header is there and calls Allow with
\* whatever key it carries.
ReceiveUnchecked(p, h) ==
    /\ pc[p] \in {"idle", "done"}
    /\ budget > 0
    /\ budget' = budget - 1
    /\ apiKey' = [apiKey EXCEPT ![p] = h]
    /\ ret' = [ret EXCEPT ![p] = "none"]
    /\ served' = [served EXCEPT ![p] = FALSE]
    /\ tokensToAdd' = [tokensToAdd EXCEPT ![p] = 0]
    /\ IF h = ""
       THEN /\ status' = [status EXCEPT ![p] = 401]
            /\ body' = [body EXCEPT ![p] = "Missing API key"]
            /\ pc' = [pc EXCEPT ![p] = "done"]
       ELSE /\ status' = [status EXCEPT ![p] = 0]
            /\ body' = [body EXCEPT ![p] = ""]
            /\ pc' = [pc EXCEPT ![p] = "lock"]
    /\ entry' = [entry EXCEPT ![p] = << >>]
    /\ reads' = [reads EXCEPT ![p] = << >>]
    /\ UNCHANGED <<limiter, requests, mutex, now, ticks, epoch, seen>>

\* apihandler.go 10-21: a request arrives; the header is read and checked
\* (http.Error answers 401 with "Missing API key" for an empty header and
\* with "Invalid API key" for a key the store does not know), and a request
\* with a valid key goes on to call limiter.Allow(apiKey).
Receive(p, h) ==
    /\ pc[p] \in {"idle", "done"}
    /\ budget > 0
    /\ budget' = budget - 1
    /\ apiKey' = [apiKey EXCEPT ![p] = h]
    /\ ret' = [ret EXCEPT ![p] = "none"]
    /\ served' = [served EXCEPT ![p] = FALSE]
    /\ tokensToAdd' = [tokensToAdd EXCEPT ![p] = 0]
    /\ IF h = ""
       THEN /\ status' = [status EXCEPT ![p] = 401]
            /\ body' = [body EXCEPT ![p] = "Missing API key"]
            /\ pc' = [pc EXCEPT ![p] = "done"]
       ELSE IF ~isValidApiKey(h)
       THEN /\ status' = [status EXCEPT ![p] = 401]
            /\ body' = [body EXCEPT ![p] = "Invalid API key"]
            /\ pc' = [pc EXCEPT ![p] = "done"]
       ELSE /\ status' = [status EXCEPT ![p] = 0]
            /\ body' = [body EXCEPT ![p] = ""]
            /\ pc' = [pc EXCEPT ![p] = "lock"]
    /\ entry' = [entry EXCEPT ![p] = << >>]
    /\ reads' = [reads EXCEPT ![p] = << >>]
    /\ UNCHANGED <<limiter, requests, mutex, now, ticks, epoch, seen>>

\* A Lock that does not wait for the mutex.
LockNoWait(p) ==
    /\ pc[p] = "lock"
    /\ mutex' = TRUE
    /\ pc' = [pc EXCEPT ![p] = "lookup"]
    /\ entry' = [entry EXCEPT ![p] = requests]
    /\ UNCHANGED <<limiter, requests, now, ticks, budget, apiKey, tokensToAdd,
                   ret, status, served, body, reads, epoch, seen>>

\* ratelimiter.go 29: rl.mutex.Lock() blocks while the mutex is held.
Lock(p) ==
    /\ pc[p] = "lock"
    /\ ~mutex
    /\ mutex' = TRUE
    /\ pc' = [pc EXCEPT ![p] = "lookup"]
    /\ entry' = [entry EXCEPT ![p] = requests]
    /\ UNCHANGED <<limiter, requests, now, ticks, budget, apiKey, tokensToAdd,
                   ret, status, served, body, reads, epoch, seen>>

\* ratelimiter.go 32-33: metadata, exists := rl.requests[apiKey].
Lookup(p) ==
    /\ pc[p] = "lookup"
    /\ pc' = [pc EXCEPT ![p] =
                IF apiKey[p] \in DOMAIN requests THEN "compute" ELSE "create"]
    /\ UNCHANGED <<limiter, requests, mutex, now, ticks, budget, apiKey,
                   tokensToAdd, ret, status, served, body, history>>

\* A first sight that stores a full bucket, the request's token not taken.
CreateFull(p) ==
    /\ pc[p] = "create"
    /\ pc' = [pc EXCEPT ![p] = "unlock"]
    /\ requests' = Put(requests, apiKey[p],
                       [lastSeen |-> now, tokenCount |-> maxLimit])
    /\ ret' = [ret EXCEPT ![p] = TRUE]
    /\ reads' = [reads EXCEPT ![p] = <<now>>]
    /\ epoch' = [epoch EXCEPT ![apiKey[p]] =
                    EpochStep(@, TRUE, << >>, 0, 0, TRUE, now, now)]
    /\ seen' = SeenStep(seen, apiKey[p], TRUE, now)
    /\ UNCHANGED <<limiter, mutex, now, ticks, budget, apiKey, tokensToAdd,
                   status, served, body, entry>>

\* A first sight that stores the new bucket in a fresh map, the buckets of
\* the other keys dropped.
CreateAlone(p) ==
    /\ pc[p] = "create"
    /\ pc' = [pc EXCEPT ![p] = "unlock"]
    /\ requests' = [x \in {apiKey[p]} |->
                       [lastSeen |-> now, tokenCount |-> maxLimit - 1]]
    /\ ret' = [ret EXCEPT ![p] = TRUE]
    /\ reads' = [reads EXCEPT ![p] = <<now>>]
    /\ epoch' = [epoch EXCEPT ![apiKey[p]] =
                    EpochStep(@, TRUE, << >>, 0, 0, TRUE, now, now)]
    /\ seen' = SeenStep(seen, apiKey[p], TRUE, now)
    /\ UNCHANGED <<limiter, mutex, now, ticks, budget, apiKey, tokensToAdd,
                   status, served, body, entry>>

\* ratelimiter.go 34-38: the key is new; its bucket is stored with
\* lastSeen = time.Now() and maxLimit - 1 tokens, and Allow returns true.
Create(p) ==
    /\ pc[p] = "create"
    /\ pc' = [pc EXCEPT ![p] = "unlock"]
    /\ requests' = Put(requests, apiKey[p],
                       [lastSeen |-> now, tokenCount |-> maxLimit - 1])
    /\ ret' = [ret EXCEPT ![p] = TRUE]
    /\ reads' = [reads EXCEPT ![p] = <<now>>]
    /\ epoch' = [epoch EXCEPT ![apiKey[p]] =
                    EpochStep(@, TRUE, << >>, 0, 0, TRUE, now, now)]
    /\ seen' = SeenStep(seen, apiKey[p], TRUE, now)
    /\ UNCHANGED <<limiter, mutex, now, ticks, budget, apiKey, tokensToAdd,
                   status, served, body, entry>>

\* ratelimiter.go 41-43: the time since lastSeen is read off the clock and
\* turned into whole tokens.
Compute(p) ==
    /\ pc[p] = "compute"
    /\ tokensToAdd' = [tokensToAdd EXCEPT ![p] =
          TokensToAdd(maxLimit, timeLImit, now - requests[apiKey[p]].lastSeen)]
    /\ reads' = [reads EXCEPT ![p] = <<now>>]
    /\ pc' = [pc EXCEPT ![p] = "refill"]
    /\ UNCHANGED <<limiter, requests, mutex, now, ticks, budget, apiKey, ret,
                   status, served, body, entry, epoch, seen>>

\* A refill that does not cap the bucket at maxLimit.
RefillNoClamp(p) ==
    LET k   == apiKey[p]
        md  == requests[k]
        add == tokensToAdd[p]
    IN  /\ pc[p] = "refill"
        /\ requests' = [requests EXCEPT ![k] =
              IF add > 0 THEN [lastSeen |-> now, tokenCount |-> md.tokenCount + add]
              ELSE md]
        /\ reads' = [reads EXCEPT ![p] = IF add > 0 THEN Append(@, now) ELSE @]
        /\ seen' = [seen EXCEPT ![k].lastAdd = IF add > 0 THEN now ELSE @]
        /\ pc' = [pc EXCEPT ![p] = "consume"]
        /\ UNCHANGED <<limiter, mutex, now, ticks, budget, apiKey, tokensToAdd,
                       ret, status, served, body, entry, epoch>>

\* A refill that restarts the clock of the bucket on every call.
RefillResetsClock(p) ==
    LET k   == apiKey[p]
        md  == requests[k]
        add == tokensToAdd[p]
    IN  /\ pc[p] = "refill"
        /\ requests' = [requests EXCEPT ![k] =
              [lastSeen |-> now,
               tokenCount |-> Min(md.tokenCount + add, maxLimit)]]
        /\ reads' = [reads EXCEPT ![p] = IF add > 0 THEN Append(@, now) ELSE @]
        /\ seen' = [seen EXCEPT ![k].lastAdd = IF add > 0 THEN now ELSE @]
        /\ pc' = [pc EXCEPT ![p] = "consume"]
        /\ UNCHANGED <<limiter, mutex, now, ticks, budget, apiKey, tokensToAdd,
                       ret, status, served, body, entry, epoch>>

\* A refill that adds the tokens due and leaves lastSeen where it was, so the
\* same elapsed time is paid out again on the next call.
RefillKeepsClock(p) ==
    LET k   == apiKey[p]
        md  == requests[k]
        add == tokensToAdd[p]
    IN  /\ pc[p] = "refill"
        /\ requests' = [requests EXCEPT ![k].tokenCount =
                            Min(md.tokenCount + add, maxLimit)]
        /\ reads' = [reads EXCEPT ![p] = IF add > 0 THEN Append(@, now) ELSE @]
        /\ seen' = [seen EXCEPT ![k].lastAdd = IF add > 0 THEN now ELSE @]
        /\ pc' = [pc EXCEPT ![p] = "consume"]
        /\ UNCHANGED <<limiter, mutex, now, ticks, budget, apiKey, tokensToAdd,
                       ret, status, served, body, entry, epoch>>

\* ratelimiter.go 45-52: when at least one whole token is due, it is added
\* and lastSeen becomes time.Now(); the count is then capped at maxLimit.
Refill(p) ==
    LET k     == apiKey[p]
        md    == requests[k]
        add   == tokensToAdd[p]
        added == IF add > 0
                 THEN [lastSeen |-> now, tokenCount |-> md.tokenCount + add]
                 ELSE md
    IN  /\ pc[p] = "refill"
        /\ requests' = [requests EXCEPT ![k] =
              IF added.tokenCount > maxLimit
              THEN [added EXCEPT !.tokenCount = maxLimit]
              ELSE added]
        /\ reads' = [reads EXCEPT ![p] = IF add > 0 THEN Append(@, now) ELSE @]
        /\ seen' = [seen EXCEPT ![k].lastAdd = IF add > 0 THEN now ELSE @]
        /\ pc' = [pc EXCEPT ![p] = "consume"]
        /\ UNCHANGED <<limiter, mutex, now, ticks, budget, apiKey, tokensToAdd,
                       ret, status, served, body, entry, epoch>>

\* The history of a decided call on an existing key.
Decided(p, ok) ==
    LET k   == apiKey[p]
        pre == IF k \in DOMAIN entry[p] THEN entry[p][k] ELSE requests[k]
    IN  /\ epoch' = [epoch EXCEPT ![k] =
              EpochStep(@, FALSE, pre, reads[p][1] - pre.lastSeen,
                        tokensToAdd[p], ok, reads[p][1], now)]
        /\ seen' = SeenStep(seen, k, ok, now)

\* A consume that spends a token the bucket does not have.
ConsumeAtZero(p) ==
    LET k == apiKey[p]
    IN  /\ pc[p] = "consume"
        /\ pc' = [pc EXCEPT ![p] = "unlock"]
        /\ IF requests[k].tokenCount >= 0
           THEN /\ requests' = [requests EXCEPT ![k].tokenCount = @ - 1]
                /\ ret' = [ret EXCEPT ![p] = TRUE]
                /\ Decided(p, TRUE)
           ELSE /\ ret' = [ret EXCEPT ![p] = FALSE]
                /\ Decided(p, FALSE)
                /\ UNCHANGED requests
        /\ UNCHANGED <<limiter, mutex, now, ticks, budget, apiKey, tokensToAdd,
                       status, served, body, entry, reads>>

\* A consume that takes the token out of every bucket (one shared count).
ConsumeShared(p) ==
    LET k == apiKey[p]
    IN  /\ pc[p] = "consume"
        /\ pc' = [pc EXCEPT ![p] = "unlock"]
        /\ IF requests[k].tokenCount > 0
           THEN /\ requests' = [x \in DOMAIN requests |->
                       IF requests[x].tokenCount > 0
                       THEN [requests[x] EXCEPT !.tokenCount = @ - 1]
                       ELSE requests[x]]
                /\ ret' = [ret EXCEPT ![p] = TRUE]
                /\ Decided(p, TRUE)
           ELSE /\ ret' = [ret EXCEPT ![p] = FALSE]
                /\ Decided(p, FALSE)
                /\ UNCHANGED requests
        /\ UNCHANGED <<limiter, mutex, now, ticks, budget, apiKey, tokensToAdd,
                       status, served, body, entry, reads>>

\* A consume that admits the call and leaves the token in the bucket.
ConsumeKeepsToken(p) ==
    LET k == apiKey[p]
    IN  /\ pc[p] = "consume"
        /\ pc' = [pc EXCEPT ![p] = "unlock"]
        /\ IF requests[k].tokenCount > 0
           THEN /\ ret' = [ret EXCEPT ![p] = TRUE]
                /\ Decided(p, TRUE)
           ELSE /\ ret' = [ret EXCEPT ![p] = FALSE]
                /\ Decided(p, FALSE)
        /\ UNCHANGED <<limiter, requests, mutex, now, ticks, budget, apiKey,
                       tokensToAdd, status, served, body, entry, reads>>

\* ratelimiter.go 54-59: a token, when there is one, is taken and Allow
\* returns true; with none left Allow returns false.
Consume(p) ==
    LET k == apiKey[p]
    IN  /\ pc[p] = "consume"
        /\ pc' = [pc EXCEPT ![p] = "unlock"]
        /\ IF requests[k].tokenCount > 0
           THEN /\ requests' = [requests EXCEPT ![k].tokenCount = @ - 1]
                /\ ret' = [ret EXCEPT ![p] = TRUE]
                /\ Decided(p, TRUE)
           ELSE /\ ret' = [ret EXCEPT ![p] = FALSE]
                /\ Decided(p, FALSE)
                /\ UNCHANGED requests
        /\ UNCHANGED <<limiter, mutex, now, ticks, budget, apiKey, tokensToAdd,
                       status, served, body, entry, reads>>

\* An Unlock written at the end of Allow instead of deferred: the early
\* return of the first-sight path leaves the mutex held.
UnlockAtEnd(p) ==
    /\ pc[p] = "unlock"
    /\ mutex' = (apiKey[p] \notin DOMAIN entry[p])
    /\ pc' = [pc EXCEPT ![p] = "respond"]
    /\ tokensToAdd' = [tokensToAdd EXCEPT ![p] = 0]
    /\ entry' = [entry EXCEPT ![p] = << >>]
    /\ reads' = [reads EXCEPT ![p] = << >>]
    /\ UNCHANGED <<limiter, requests, now, ticks, budget, apiKey, ret, status,
                   served, body, epoch, seen>>

\* ratelimiter.go 30: the deferred rl.mutex.Unlock() runs as Allow returns
\* (its locals are gone with it).
Unlock(p) ==
    /\ pc[p] = "unlock"
    /\ mutex' = FALSE
    /\ pc' = [pc EXCEPT ![p] = "respond"]
    /\ tokensToAdd' = [tokensToAdd EXCEPT ![p] = 0]
    /\ entry' = [entry EXCEPT ![p] = << >>]
    /\ reads' = [reads EXCEPT ![p] = << >>]
    /\ UNCHANGED <<limiter, requests, now, ticks, budget, apiKey, ret, status,
                   served, body, epoch, seen>>

\* A gate that forwards whatever Allow returned.
RespondAlways(p) ==
    /\ pc[p] = "respond"
    /\ status' = [status EXCEPT ![p] = 200]
    /\ served' = [served EXCEPT ![p] = TRUE]
    /\ body' = [body EXCEPT ![p] = "Hello World"]
    /\ pc' = [pc EXCEPT ![p] = "done"]
    /\ UNCHANGED <<limiter, requests, mutex, now, ticks, budget, apiKey,
                   tokensToAdd, ret, history>>

\* apihandler.go 21-26: 429 when Allow returned false; otherwise the wrapped
\* handler serves the request (main.go's helloHandler answers 200 with
\* "Hello World").
Respond(p) ==
    /\ pc[p] = "respond"
    /\ IF ret[p] = FALSE
       THEN /\ status' = [status EXCEPT ![p] = 429]
            /\ body' = [body EXCEPT ![p] = "Rate limit exceeded"]
            /\ UNCHANGED served
       ELSE /\ status' = [status EXCEPT ![p] = 200]
            /\ served' = [served EXCEPT ![p] = TRUE]
            /\ body' = [body EXCEPT ![p] = "Hello World"]
    /\ pc' = [pc EXCEPT ![p] = "done"]
    /\ UNCHANGED <<limiter, requests, mutex, now, ticks, budget, apiKey,
                   tokensToAdd, ret, history>>

\* Time passes: the clock advances by d seconds.
Tick(d) ==
    /\ ticks < MaxTicks
    /\ ticks' = ticks + 1
    /\ now' = now + d
    /\ UNCHANGED <<limiter, requests, mutex, budget, locals, history>>

Worker(p) ==
    \/ \E h \in sent : Receive(p, h)
    \/ Lock(p)
    \/ Lookup(p)
    \/ Create(p)
    \/ Compute(p)
    \/ Refill(p)
    \/ Consume(p)
    \/ Unlock(p)
    \/ Respond(p)

Next ==
    \/ \E p \in Procs : Worker(p)
    \/ \E d \in clockSteps : Tick(d)

\* Concurrent workers on small limiters.
Spec == Init /\ [][Next]_vars

\* The steps a request's goroutine takes by itself once it is being handled,
\* but for the arithmetic of lines 41-43: everything after the arrival of the
\* request and the wait for the mutex.
Running(p) ==
    \/ Lookup(p)
    \/ Create(p)
    \/ Refill(p)
    \/ Consume(p)
    \/ Unlock(p)
    \/ Respond(p)

\* The worker gets past lines 41-43 (the step Compute takes, seen by its
\* position alone: the arithmetic cannot block).
Computed(p) ==
    /\ pc[p] = "compute"
    /\ pc' = [pc EXCEPT ![p] = "refill"]

\* Fair scheduling: a goroutine that can run is eventually run (the Go
\* scheduler preempts), and a goroutine blocked in rl.mutex.Lock() gets the
\* mutex if it is free again and again (sync.Mutex hands the lock to a waiter
\* that has been starved).  Clients need not send requests and the clock
\* need not be observed to advance.
Fairness ==
    \A p \in Procs :
        /\ WF_pc(Running(p))
        /\ WF_pc(Computed(p))
        /\ SF_pc(Lock(p))

\* A one-token limiter and one key: the workers contend for the same bucket,
\* and a call returns by the first-sight, the admit or the reject path.
LiveScenarios ==
    { [maxLimit |-> 1, timeLImit |-> 2, steps |-> {2},
       sent |-> {"apikey123"}] }

InitLive == InitWith(LiveScenarios, MaxRequests)

\* Concurrent workers on one bucket, fairly scheduled.
SpecLive == InitLive /\ [][Next]_vars /\ Fairness

NextRef ==
    \/ Worker(1)
    \/ \E d \in clockSteps : Tick(d)

\* One worker, its requests one after the other, on the reference limiters.
SpecRef == InitRef /\ [][NextRef]_vars

----------------------------------------------------------------------------
(* Allow as one function: what a call alone on the registry does *)

\* ratelimiter.go 28-60, run without interruption on the registry reg; rd are
\* the clock values it reads, in order (line 35, or line 42 and then line 47).
AllowSeq(reg, key, rd) ==
    IF key \notin DOMAIN reg
    THEN [requests |-> Put(reg, key, [lastSeen |-> rd[1],
                                      tokenCount |-> maxLimit - 1]),
          ok |-> TRUE]
    ELSE LET md      == reg[key]
             add     == TokensToAdd(maxLimit, timeLImit, rd[1] - md.lastSeen)
             tokens  == IF add > 0 THEN md.tokenCount + add ELSE md.tokenCount
             seenAt  == IF add > 0 THEN rd[2] ELSE md.lastSeen
             capped  == IF tokens > maxLimit THEN maxLimit ELSE tokens
         IN  IF capped > 0
             THEN [requests |-> [reg EXCEPT ![key] =
                      [lastSeen |-> seenAt, tokenCount |-> capped - 1]],
                   ok |-> TRUE]
             ELSE [requests |-> [reg EXCEPT ![key] =
                      [lastSeen |-> seenAt, tokenCount |-> capped]],
                   ok |-> FALSE]

----------------------------------------------------------------------------
(* Properties *)

\* n return values: true for the first g, false after.
Pattern(n, g) == [i \in 1..n |-> i <= g]

Admitted(results) == Cardinality({i \in 1..Len(results) : results[i]})

\* The worker's Allow call has decided and still holds the mutex.
Returning(p) == pc[p] = "unlock"

\* C1: every bucket in the registry holds between 0 and maxLimit tokens,
\* whatever calls and clock advances came before.
C1_TokenCountInRange ==
    \A k \in DOMAIN requests :
        /\ requests[k].tokenCount >= 0
        /\ requests[k].tokenCount <= maxLimit

\* C1's case: a refill that had to be capped at maxLimit.
C1_Witness ==
    \E p \in Procs :
        /\ pc[p] = "consume"
        /\ tokensToAdd[p] > 0
        /\ entry[p][apiKey[p]].tokenCount + tokensToAdd[p] > maxLimit
        /\ requests[apiKey[p]].tokenCount = maxLimit

\* C2: of the N calls decided so far on a key first seen by them, with less
\* than one token's worth of time elapsed since the first, exactly
\* min(N, maxLimit) returned true, whatever the interleaving.
C2_ConcurrentBurst ==
    \A k \in ApiKeys :
        (/\ epoch[k].kind = "fresh"
         /\ (epoch[k].last - epoch[k].at) * maxLimit < timeLImit)
        => Admitted(epoch[k].results) = Min(Len(epoch[k].results), maxLimit)

\* C2's case: more calls than tokens on a fresh key, one of them waiting for
\* the mutex while another is inside Allow.
C2_Witness ==
    \E k \in ApiKeys : \E p, q \in Procs :
        /\ p # q /\ apiKey[p] = k /\ apiKey[q] = k
        /\ pc[p] = "unlock" /\ pc[q] = "lock"
        /\ epoch[k].kind = "fresh"
        /\ epoch[k].last = epoch[k].at
        /\ Len(epoch[k].results) > maxLimit
        /\ ret[p] = FALSE

\* C3: when a call has decided, its return value and the registry are what
\* the call run alone on the registry it found on taking the mutex gives:
\* the calls take effect one at a time, in the order they took the mutex.
C3_Serializable ==
    \A p \in Procs :
        Returning(p) =>
            LET r == AllowSeq(entry[p], apiKey[p], reads[p])
            IN  /\ ret[p] = r.ok
                /\ requests = r.requests

\* C3's case: a call that refilled and decided while another call on the
\* same key waits for the mutex.
C3_Witness ==
    \E p, q \in Procs :
        /\ p # q /\ apiKey[p] = apiKey[q]
        /\ pc[p] = "unlock" /\ pc[q] = "lock"
        /\ Len(reads[p]) = 2

\* C4: Allow on a key that is not in the registry returns true and stores a
\* bucket with maxLimit - 1 tokens and lastSeen = the time it read.
C4_FirstSight ==
    \A p \in Procs :
        (Returning(p) /\ apiKey[p] \notin DOMAIN entry[p]) =>
            /\ ret[p] = TRUE
            /\ apiKey[p] \in DOMAIN requests
            /\ requests[apiKey[p]] =
                  [lastSeen |-> reads[p][1], tokenCount |-> maxLimit - 1]

\* C4's case: a first sight at a time other than the start.
C4_Witness ==
    \E p \in Procs :
        /\ Returning(p) /\ apiKey[p] \notin DOMAIN entry[p]
        /\ reads[p] = <<now>> /\ now > 0

\* C5: calls on a never-seen key with no time elapsed between them return
\* true maxLimit times and false from then on.
C5_BurstExhaustion ==
    \A k \in ApiKeys :
        (epoch[k].kind = "fresh" /\ epoch[k].last = epoch[k].at)
        => epoch[k].results = Pattern(Len(epoch[k].results), maxLimit)

\* C5's case: NewRateLimiter(5, 60), seven calls back to back.
C5_Witness ==
    /\ maxLimit = 5 /\ timeLImit = 60
    /\ epoch["apikey123"].kind = "fresh"
    /\ epoch["apikey123"].last = epoch["apikey123"].at
    /\ epoch["apikey123"].results = <<TRUE, TRUE, TRUE, TRUE, TRUE, FALSE, FALSE>>

\* C6: after a call found the bucket empty, dt seconds after lastSeen, the
\* calls from that one on with no time elapsed between them return true
\* min(maxLimit, floor(dt * maxLimit / timeLImit)) times and false after.
C6_RefillAfterExhaustion ==
    \A k \in ApiKeys :
        (epoch[k].kind = "exhausted" /\ epoch[k].last = epoch[k].at)
        => epoch[k].results =
              Pattern(Len(epoch[k].results),
                      Min(maxLimit, (epoch[k].dt * maxLimit) \div timeLImit))

\* C6 on NewRateLimiter(5, 60) alone.
C6_ReferenceLimiter ==
    (maxLimit = 5 /\ timeLImit = 60) => C6_RefillAfterExhaustion

\* C6's case on NewRateLimiter(5, 60): exhausted, then 12 s later one call
\* admitted and the next rejected.
C6_ReferenceWitness ==
    /\ maxLimit = 5 /\ timeLImit = 60
    /\ epoch["apikey123"].kind = "exhausted"
    /\ epoch["apikey123"].dt = 12
    /\ epoch["apikey123"].last = epoch["apikey123"].at
    /\ epoch["apikey123"].results = <<TRUE, FALSE>>

\* C7: a call that finds less than one token's worth of time elapsed leaves
\* lastSeen alone; lastSeen is always the last time tokens were added (or the
\* bucket created), and that is the time a call measures from.
C7_FractionalRetention ==
    /\ \A p \in Procs :
          (/\ pc[p] \in {"consume", "unlock"}
           /\ apiKey[p] \in DOMAIN entry[p]
           /\ ((reads[p][1] - entry[p][apiKey[p]].lastSeen) * maxLimit)
                 \div timeLImit = 0)
          => requests[apiKey[p]].lastSeen = entry[p][apiKey[p]].lastSeen
    /\ \A k \in DOMAIN requests : requests[k].lastSeen = seen[k].lastAdd
    /\ \A p \in Procs :
          pc[p] = "refill" =>
              tokensToAdd[p] = TokensToAdd(maxLimit, timeLImit,
                                  reads[p][1] - seen[apiKey[p]].lastAdd)

\* C7's case: NewRateLimiter(5, 60), a call 5 or 7 s after creation, and the
\* next call at 12 s, which is granted the token.
C7_Witness ==
    /\ maxLimit = 5 /\ timeLImit = 60
    /\ pc[1] = "consume" /\ apiKey[1] = "apikey123"
    /\ epoch["apikey123"].kind = "fresh"
    /\ epoch["apikey123"].at = 0
    /\ epoch["apikey123"].last \in {5, 7}
    /\ reads[1] = <<12, 12>>
    /\ tokensToAdd[1] = 1
    /\ requests["apikey123"].lastSeen = 12

\* C8: a call on one key leaves every other key as it found it, in or out of
\* the registry; a key first seen while another key's bucket is empty is
\* still admitted, with a bucket of maxLimit - 1 tokens.
C8_KeyIndependence ==
    \A p \in Procs :
        Returning(p) =>
            /\ \A b \in ApiKeys \ {apiKey[p]} :
                  /\ b \in DOMAIN requests <=> b \in DOMAIN entry[p]
                  /\ b \in DOMAIN requests => requests[b] = entry[p][b]
            /\ (/\ apiKey[p] \notin DOMAIN entry[p]
                /\ \E a \in DOMAIN entry[p] : entry[p][a].tokenCount = 0)
               => (ret[p] = TRUE /\ requests[apiKey[p]].tokenCount = maxLimit - 1)

\* C8's case: the other key's bucket has been emptied by maxLimit calls
\* when this key is first seen.
C8_Witness ==
    \E p \in Procs : \E a \in ApiKeys :
        /\ Returning(p) /\ apiKey[p] # a
        /\ apiKey[p] \notin DOMAIN entry[p]
        /\ a \in DOMAIN entry[p] /\ entry[p][a].tokenCount = 0
        /\ seen[a].admitted >= maxLimit

\* C9: a finished request was forwarded exactly when its key is non-empty,
\* valid and Allow returned true; it got 401 (and Allow was not called) when
\* the key is missing or invalid, and 429 when Allow returned false.
C9_GateOutcome ==
    \A p \in Procs :
        pc[p] = "done" =>
            /\ served[p] <=>
                  (apiKey[p] # "" /\ isValidApiKey(apiKey[p]) /\ ret[p] = TRUE)
            /\ (apiKey[p] = "" \/ ~isValidApiKey(apiKey[p]))
                  => (status[p] = 401 /\ ret[p] = "none")
            /\ (apiKey[p] # "" /\ isValidApiKey(apiKey[p]) /\ ret[p] = FALSE)
                  => status[p] = 429
            /\ status[p] \in {401, 429} => ~served[p]

\* C9's case: one request turned away with 429 and one with 401.
C9_Witness ==
    \E p, q \in Procs :
        /\ pc[p] = "done" /\ status[p] = 429
        /\ pc[q] = "done" /\ status[q] = 401

\* C10: on NewRateLimiter(5, 60), a request that is the sixth or later of
\* its key within 60 s of the key's first request is rejected with 429.
C10_FivePerWindow ==
    (maxLimit = 5 /\ timeLImit = 60) =>
        \A k \in DOMAIN seen :
            (/\ pc[1] = "done" /\ apiKey[1] = k
             /\ seen[k].calls > maxLimit
             /\ now - seen[k].first < timeLImit)
            => status[1] = 429

\* C11: for every key, the calls admitted since its bucket was created at
\* seen[k].first number at most maxLimit plus the whole tokens the elapsed
\* time is worth, floor((now - first) * maxLimit / timeLImit).
C11_SustainedRate ==
    \A k \in DOMAIN seen :
        seen[k].admitted <=
            maxLimit + ((now - seen[k].first) * maxLimit) \div timeLImit

\* C11's case: the burst is spent, time has passed, and every token the
\* elapsed time is worth has been admitted as well.
C11_Witness ==
    \E k \in DOMAIN seen :
        /\ now > seen[k].first
        /\ seen[k].admitted > maxLimit
        /\ seen[k].admitted =
              maxLimit + ((now - seen[k].first) * maxLimit) \div timeLImit

\* The positions of a worker inside limiter.Allow, from the call to the return.
AllowPcs == {"lock", "lookup", "create", "compute", "refill", "consume",
             "unlock"}

\* C12: a worker is inside Allow only with a non-empty key that passed
\* validation; a request answered 401 is finished without Allow having been
\* called; the arrival of a request (header read and validated) leaves the
\* registry as it was, and the registry changes only by a step of a worker
\* inside Allow, on that worker's key alone.
C12_GateOrdering ==
    [][/\ \A p \in Procs :
            /\ pc'[p] \in AllowPcs =>
                  (/\ apiKey'[p] # ""
                   /\ isValidApiKey(apiKey'[p])
                   /\ status'[p] # 401)
            /\ status'[p] = 401 => (pc'[p] = "done" /\ ret'[p] = "none")
       /\ budget' < budget => (requests' = requests /\ seen' = seen)
       /\ requests' # requests =>
            \E p \in Procs :
                /\ pc[p] \in {"create", "refill", "consume"}
                /\ pc'[p] # pc[p]
                /\ apiKey[p] # "" /\ isValidApiKey(apiKey[p])
                /\ \A k \in DOMAIN requests' \ {apiKey[p]} :
                      k \in DOMAIN requests /\ requests'[k] = requests[k]
      ]_vars

\* C12's case: a request with an unrecognized key has been answered 401
\* while a bucket exists and the other worker is inside Allow.
C12_Witness ==
    \E p, q \in Procs :
        /\ pc[q] = "done" /\ status[q] = 401
        /\ apiKey[q] # "" /\ ~isValidApiKey(apiKey[q])
        /\ pc[p] \in AllowPcs
        /\ requests # << >>
        /\ DOMAIN requests \subseteq ApiKeys

\* The step rule of Allow on an existing key, for a call that has decided,
\* with add the whole tokens granted for the time dt it measured.
StepRule(p, add) ==
    LET k     == apiKey[p]
        old   == entry[p][k]
        avail == Min(maxLimit, old.tokenCount + add)
    IN  /\ ret[p] = (avail > 0)
        /\ requests[k].tokenCount = IF avail > 0 THEN avail - 1 ELSE 0
        /\ requests[k].lastSeen =
              IF add > 0 THEN reads[p][Len(reads[p])] ELSE old.lastSeen

\* C13: a call on an existing key, with dt = the time read - lastSeen and
\* add = floor(dt * maxLimit / timeLImit), follows the step rule: it returns
\* true and leaves min(maxLimit, old + add) - 1 tokens when that minimum is
\* positive, returns false when it is 0, and lastSeen becomes the time read
\* exactly when add > 0.
C13_StepRule ==
    \A p \in Procs :
        (Returning(p) /\ apiKey[p] \in DOMAIN entry[p]) =>
            StepRule(p, ((reads[p][1] - entry[p][apiKey[p]].lastSeen) * maxLimit)
                            \div timeLImit)

\* C13 with add as lines 41-43 compute it in float64.
C13_StepRuleAsComputed ==
    \A p \in Procs :
        (Returning(p) /\ apiKey[p] \in DOMAIN entry[p]) =>
            StepRule(p, TokensToAdd(maxLimit, timeLImit,
                            reads[p][1] - entry[p][apiKey[p]].lastSeen))

\* C13's case: a call that found the bucket empty after a wait and was
\* granted tokens.
C13_Witness ==
    \E p \in Procs :
        /\ Returning(p) /\ apiKey[p] \in DOMAIN entry[p]
        /\ entry[p][apiKey[p]].tokenCount = 0
        /\ tokensToAdd[p] > 0
        /\ ret[p] = TRUE

\* C14: a call that returns false found its key's bucket at 0 tokens and
\* leaves it at 0 tokens with the same lastSeen, and leaves every other
\* entry of the registry as it was.
C14_RejectChangesNothing ==
    \A p \in Procs :
        (Returning(p) /\ ret[p] = FALSE) =>
            LET k == apiKey[p]
            IN  /\ k \in DOMAIN entry[p]
                /\ entry[p][k].tokenCount = 0
                /\ requests[k].tokenCount = 0
                /\ requests[k].lastSeen = entry[p][k].lastSeen
                /\ DOMAIN requests = DOMAIN entry[p]
                /\ \A b \in DOMAIN requests \ {k} : requests[b] = entry[p][b]

\* C14's case: a call rejected some time after lastSeen, too early for a
\* token, with another key's bucket in the registry.
C14_Witness ==
    \E p \in Procs :
        /\ Returning(p) /\ ret[p] = FALSE
        /\ reads[p][1] > entry[p][apiKey[p]].lastSeen
        /\ \E b \in DOMAIN requests : b # apiKey[p]

\* The call of worker p has left its key's bucket other than it found it
\* (a bucket that was not there counts as changed).
BucketChanged(p) ==
    \/ apiKey[p] \notin DOMAIN entry[p]
    \/ requests[apiKey[p]] # entry[p][apiKey[p]]

\* C15 as stated: every call that has decided, admitted or rejected, has
\* left its key's bucket other than it found it, and returned a boolean.
C15_EveryCallMutates ==
    \A p \in Procs :
        Returning(p) => (BucketChanged(p) /\ ret[p] \in BOOLEAN)

\* C15, amended: a call that has decided returned a boolean, and it has
\* changed its key's bucket exactly when it returned true; a rejected call
\* leaves the bucket as it found it.
C15_AdmittedCallMutates ==
    \A p \in Procs :
        Returning(p) =>
            /\ ret[p] \in BOOLEAN
            /\ ret[p] = TRUE <=> BucketChanged(p)

\* C15's case: an admitted call that leaves as many tokens as it found (one
\* added, one taken), the bucket differing by lastSeen alone, on a key that
\* has had a call rejected before.
C15_Witness ==
    \E p \in Procs :
        /\ Returning(p) /\ ret[p] = TRUE
        /\ apiKey[p] \in DOMAIN entry[p]
        /\ requests[apiKey[p]].tokenCount = entry[p][apiKey[p]].tokenCount
        /\ requests[apiKey[p]].lastSeen > entry[p][apiKey[p]].lastSeen
        /\ seen[apiKey[p]].calls > seen[apiKey[p]].admitted

\* C16: a worker reaches the first-sight path only while its key is not in
\* the registry, so no stored bucket is overwritten by a creation; the call
\* that takes the first-sight path is the first decided on its key, and every
\* other call finds the bucket the first one stored (the key has one entry,
\* created at seen[k].first) and takes its token from that entry.
C16_ConcurrentFirstSight ==
    /\ \A p \in Procs :
          LET k == apiKey[p]
          IN  /\ pc[p] = "create" => k \notin DOMAIN requests
              /\ pc[p] \in {"compute", "refill", "consume"}
                    => k \in DOMAIN requests
              /\ (Returning(p) /\ k \notin DOMAIN entry[p]) =>
                    /\ seen[k].calls = 1
                    /\ requests[k].lastSeen = seen[k].first
              /\ (Returning(p) /\ k \in DOMAIN entry[p]) =>
                    /\ seen[k].calls > 1
                    /\ entry[p][k].lastSeen >= seen[k].first
                    /\ ret[p] = TRUE =>
                          requests[k].tokenCount =
                              Min(entry[p][k].tokenCount + tokensToAdd[p],
                                  maxLimit) - 1
    /\ \A p, q \in Procs :
          (p # q /\ pc[p] = "create") => pc[q] # "create"
    /\ DOMAIN requests = DOMAIN seen

\* C16's case: two calls for the same never-seen key in flight together; one
\* has created the bucket and the other is waiting for the mutex.
C16_Witness ==
    \E p, q \in Procs :
        /\ p # q /\ apiKey[p] = apiKey[q]
        /\ Returning(p) /\ apiKey[p] \notin DOMAIN entry[p]
        /\ pc[q] = "lock"
        /\ seen[apiKey[p]].calls = 1

\* C16's case, later: the call that waited has found the bucket and taken
\* a token from it while the creator has not yet answered.
C16_SecondCall ==
    \E p, q \in Procs :
        /\ p # q /\ apiKey[p] = apiKey[q]
        /\ pc[p] = "respond" /\ ret[p] = TRUE
        /\ Returning(q) /\ apiKey[q] \in DOMAIN entry[q]
        /\ seen[apiKey[q]].calls = 2 /\ ret[q] = TRUE

\* C17: in every step the registry keeps the keys it has; a key is added
\* only by the first-sight step of the first Allow call decided on that key;
\* the keys of the registry are exactly the keys on which an Allow call has
\* been decided, and the key of every call that has returned is among them.
C17_RegistryLifecycle ==
    [][/\ DOMAIN requests \subseteq DOMAIN requests'
       /\ DOMAIN requests' # DOMAIN requests =>
            \E p \in Procs :
                /\ pc[p] = "create" /\ pc'[p] = "unlock"
                /\ apiKey[p] \notin DOMAIN requests
                /\ apiKey[p] \notin DOMAIN seen
                /\ DOMAIN requests' = DOMAIN requests \cup {apiKey[p]}
       /\ DOMAIN requests' = DOMAIN seen'
       /\ \A p \in Procs :
            (\/ pc'[p] \in {"unlock", "respond"}
             \/ pc'[p] = "done" /\ status'[p] # 401)
               => apiKey'[p] \in DOMAIN requests'
       /\ DOMAIN requests' \subseteq
            DOMAIN seen \cup {apiKey[p] : p \in {q \in Procs : pc[q] = "create"}}
      ]_vars

\* C17's case: a second key has just entered the registry, and the first
\* key, its bucket emptied, is still there.
C17_Witness ==
    \E p \in Procs : \E a \in DOMAIN requests :
        /\ Returning(p) /\ apiKey[p] \notin DOMAIN entry[p]
        /\ a # apiKey[p]
        /\ requests[a].tokenCount = 0
        /\ seen[a].first < now
        /\ DOMAIN requests = DOMAIN entry[p] \cup {apiKey[p]}

\* The positions of a worker that holds the mutex.
Holding == {"lookup", "create", "compute", "refill", "consume", "unlock"}

\* The mutex is held exactly while one worker is between Lock and Unlock, by
\* at most one worker; and a worker waiting for the mutex while no worker is
\* between Lock and Unlock can take it.
LockDiscipline ==
    /\ Cardinality({p \in Procs : pc[p] \in Holding}) <= 1
    /\ mutex <=> (\E p \in Procs : pc[p] \in Holding)
    /\ \A p \in Procs :
          (pc[p] = "lock" /\ \A q \in Procs : pc[q] \notin Holding)
             => ENABLED Lock(p)

\* C18: the mutex is free again once the call that held it has returned, on
\* the first-sight, the admit and the reject path alike; at most one call
\* holds it at any time; a call waiting for a mutex nobody holds can take
\* it; and under fair scheduling every call that has started acquires the
\* mutex and then returns, so no state with a call inside Allow is stuck.
C18_LockAndProgress ==
    /\ []LockDiscipline
    /\ \A p \in Procs : (pc[p] = "lock") ~> (pc[p] \in Holding)
    /\ \A p \in Procs : (pc[p] \in AllowPcs) ~> (pc[p] = "respond")

\* C18's case: a call on the reject path is about to release the mutex
\* while another call waits for it, the first-sight call having returned.
C18_Witness ==
    \E p, q \in Procs :
        /\ p # q
        /\ Returning(p) /\ ret[p] = FALSE /\ mutex
        /\ pc[q] = "lock"
        /\ seen[apiKey[p]].admitted = 1

\* C19: a finished request with no key and a finished request with a key
\* the store does not know have been given the same response, status and
\* text alike.
C19_NonDisclosure ==
    \A p, q \in Procs :
        (/\ pc[p] = "done" /\ apiKey[p] = ""
         /\ pc[q] = "done" /\ apiKey[q] # "" /\ ~isValidApiKey(apiKey[q]))
        => (status[p] = status[q] /\ body[p] = body[q])

\* C19 for the status alone: both requests are answered 401.
C19_SameStatus ==
    \A p, q \in Procs :
        (/\ pc[p] = "done" /\ apiKey[p] = ""
         /\ pc[q] = "done" /\ apiKey[q] # "" /\ ~isValidApiKey(apiKey[q]))
        => (status[p] = 401 /\ status[q] = 401)

\* C19's case: one request without a key and one with an unknown key have
\* both been answered.
C19_Witness ==
    \E p, q \in Procs :
        /\ pc[p] = "done" /\ apiKey[p] = ""
        /\ pc[q] = "done" /\ apiKey[q] # "" /\ ~isValidApiKey(apiKey[q])

====
